---------------------------- MODULE Spec2Model ----------------------------
(***************************************************************************)
(* State-machine model of VolttronAuthService (the auth orchestrator of    *)
(* volttron-lib-auth): bootstrap in __init__, the exported RPC operations, *)
(* and the propagation push of create_or_merge_agent_authz.                *)
(*                                                                         *)
(* Strings that are pattern-matched (resource patterns, method resources,  *)
(* topics) are sequences of tokens, so that isregex and the matcher work   *)
(* on their first and last elements as the code does on characters.        *)
(***************************************************************************)
EXTENDS Naturals, Sequences, FiniteSets, TLC

VARIABLES
    configured,  \* whether an Authorization Manager was injected (authz_manager is not None)
    phase,       \* "Uninitialized" | "Bootstrapping" | "Running" | "Failed"
    epoch,       \* which construction of the service object this is
    pc,          \* index of the next bootstrap step of __init__
    creds,       \* credential store: identity -> generation of the stored secret (0: absent)
    gen,         \* credentials creator: how many secrets were created per identity
    policy,      \* the Authorization Manager's policy store
    peers,       \* self.vip.peerlist.peers_list
    agentProt,   \* protected_rpcs a connected agent enforces locally
    pending,     \* create_or_merge_agent_authz requests blocked in rpc.call(...).get(timeout=5)
    served,      \* number of requests accepted so far
    last,        \* the outcome of the most recent request step
    bootBase,    \* the stores when the current run of bootstrap attempts began
    bootBaseSettled, \* whether bootBase was itself left by a complete bootstrap
    calls        \* create_agent handlers running step by step: position and locals

vars == <<configured, phase, epoch, pc, creds, gen, policy, peers, agentProt,
          pending, served, last, bootBase, bootBaseSettled, calls>>

-----------------------------------------------------------------------------
(* Bounds of the model *)

MaxOps == 2
MaxEpoch == 2
MaxGen == 2
MaxPending == 1

-----------------------------------------------------------------------------
(* Known identities (volttron.client.known_identities) *)

CONFIGURATION_STORE == "config.store"
AUTH == "platform.auth"
CONTROL_CONNECTION == "control.connection"
CONTROL == "control"
PLATFORM == "platform"
PLATFORM_HEALTH == "platform.health"

volttron_services ==
    <<CONFIGURATION_STORE, AUTH, CONTROL_CONNECTION, CONTROL, PLATFORM, PLATFORM_HEALTH>>

Range(s) == {s[k] : k \in 1..Len(s)}

Users == {"agent1"}
Identities == Range(volttron_services) \cup Users

RoleNames == {"default_rpc_capabilities", "sync_agent_config", "admin"}
GroupNames == {"admin_users"}

-----------------------------------------------------------------------------
(* Pattern Matcher *)

isregex(obj) == Len(obj) > 1 /\ obj[1] = "/" /\ obj[Len(obj)] = "/"

\* Full match of a token regex: ".*" matches any run of tokens, "." any one
\* token, every other token itself.
RECURSIVE RegexFullMatch(_, _)
RegexFullMatch(re, s) ==
    IF re = <<>> THEN s = <<>>
    ELSE IF Head(re) = ".*"
         THEN RegexFullMatch(Tail(re), s)
              \/ (s # <<>> /\ RegexFullMatch(re, Tail(s)))
    ELSE /\ s # <<>>
         /\ (Head(re) = "." \/ Head(re) = Head(s))
         /\ RegexFullMatch(Tail(re), Tail(s))

PatternMatches(pattern, candidate) ==
    IF isregex(pattern)
    THEN RegexFullMatch(SubSeq(pattern, 2, Len(pattern) - 1), candidate)
    ELSE pattern = candidate

\* f"{vip_id}.{method}"
Resource(vipid, method) == <<vipid, ".", method>>

RPCCapability(resource) == [resource |-> resource, params |-> {}]
PubsubCapability(topic_pattern, topic_access) ==
    [topic_pattern |-> topic_pattern, topic_access |-> topic_access]
AgentRole(role_name, param_restrictions) ==
    [role_name |-> role_name, params |-> param_restrictions]

-----------------------------------------------------------------------------
(* Policy Store and Authorization Manager *)

NoRole == [present |-> FALSE, rpc |-> {}, pubsub |-> {}]
NoGroup == [present |-> FALSE, identities |-> {}, roles |-> {}, rpc |-> {}, pubsub |-> {}]
NoAuthz == [present |-> FALSE, protected_rpcs |-> {}, roles |-> {}, rpc |-> {},
            pubsub |-> {}, comments |-> "None"]

EmptyPolicy ==
    [roles  |-> [n \in RoleNames |-> NoRole],
     groups |-> [n \in GroupNames |-> NoGroup],
     authz  |-> [i \in Identities |-> NoAuthz],
     topics |-> {}]

\* A None argument merges nothing.
AM_create_or_merge_role(P, name, rpc_capabilities, pubsub_capabilities) ==
    [P EXCEPT !.roles[name] =
        [present |-> TRUE,
         rpc     |-> @.rpc \cup rpc_capabilities,
         pubsub  |-> @.pubsub \cup pubsub_capabilities]]

AM_create_or_merge_agent_group(P, name, identities, agent_roles, rpc_capabilities, pubsub_capabilities) ==
    [P EXCEPT !.groups[name] =
        [present    |-> TRUE,
         identities |-> @.identities \cup identities,
         roles      |-> @.roles \cup agent_roles,
         rpc        |-> @.rpc \cup rpc_capabilities,
         pubsub     |-> @.pubsub \cup pubsub_capabilities]]

\* Unions every set; the comments are overwritten (None included).
AM_create_or_merge_agent_authz(P, identity, protected_rpcs, agent_roles, rpc_capabilities, pubsub_capabilities, comments) ==
    [P EXCEPT !.authz[identity] =
        [present        |-> TRUE,
         protected_rpcs |-> @.protected_rpcs \cup protected_rpcs,
         roles          |-> @.roles \cup agent_roles,
         rpc            |-> @.rpc \cup rpc_capabilities,
         pubsub         |-> @.pubsub \cup pubsub_capabilities,
         comments       |-> comments]]

\* Mutation APIs return success once applied.
AM_result == TRUE

AM_remove_agent_authorization(P, identity) == [P EXCEPT !.authz[identity] = NoAuthz]

AM_remove_agent_group(P, name) == [P EXCEPT !.groups[name] = NoGroup]

\* Removing a role unassigns it wherever it is referenced.
AM_remove_role(P, name) ==
    LET keep(assignments) == {a \in assignments : a.role_name # name}
    IN [P EXCEPT !.roles[name] = NoRole,
                 !.authz  = [i \in Identities |-> [@[i] EXCEPT !.roles = keep(@)]],
                 !.groups = [g \in GroupNames |-> [@[g] EXCEPT !.roles = keep(@)]]]

AM_add_agents_to_group(P, name, identities) ==
    [P EXCEPT !.groups[name].identities = @ \cup identities]

AM_remove_agents_from_group(P, name, identities) ==
    [P EXCEPT !.groups[name].identities = @ \ identities]

AM_create_protected_topics(P, topic_name_patterns) ==
    [P EXCEPT !.topics = @ \cup topic_name_patterns]

AM_remove_protected_topics(P, topic_name_patterns) ==
    [P EXCEPT !.topics = @ \ topic_name_patterns]

\* The assignment's param_restrictions are merged into the role's capability
\* (a dict update: the assignment wins on a shared key).
RestrictedBy(cap, params) ==
    [cap EXCEPT !.params =
        {kv \in @ : ~\E a \in params : a[1] = kv[1]} \cup params]

RoleRpc(P, assignments) ==
    UNION {{RestrictedBy(c, a.params) : c \in P.roles[a.role_name].rpc} : a \in assignments}

RolePubsub(P, assignments) ==
    UNION {P.roles[a.role_name].pubsub : a \in assignments}

GroupsOf(P, identity) ==
    {g \in GroupNames : P.groups[g].present /\ identity \in P.groups[g].identities}

EffectiveRpc(P, identity) ==
    P.authz[identity].rpc
    \cup RoleRpc(P, P.authz[identity].roles)
    \cup UNION {P.groups[g].rpc \cup RoleRpc(P, P.groups[g].roles) : g \in GroupsOf(P, identity)}

EffectivePubsub(P, identity) ==
    P.authz[identity].pubsub
    \cup RolePubsub(P, P.authz[identity].roles)
    \cup UNION {P.groups[g].pubsub \cup RolePubsub(P, P.groups[g].roles) :
                g \in GroupsOf(P, identity)}

AM_get_agent_capabilities(P, identity) ==
    [rpc_capabilities |-> EffectiveRpc(P, identity),
     pubsub_capabilities |-> EffectivePubsub(P, identity)]

\* Python truth value of the capability set returned by get_agent_capabilities.
Truthy(caps) == caps.rpc_capabilities # {} \/ caps.pubsub_capabilities # {}

AM_get_protected_rpcs(P, identity) == P.authz[identity].protected_rpcs

\* method_name is <<target vip id, method>>; method_args a set of <<name, value>>.
AM_check_rpc_authorization(P, identity, method_name, method_args) ==
    IF method_name[2] \notin P.authz[method_name[1]].protected_rpcs
    THEN TRUE
    ELSE \E c \in EffectiveRpc(P, identity) :
            /\ PatternMatches(c.resource, Resource(method_name[1], method_name[2]))
            /\ \A kv \in c.params : kv \in method_args

AM_check_pubsub_authorization(P, identity, topic_pattern, access) ==
    \E c \in EffectivePubsub(P, identity) :
        /\ PatternMatches(c.topic_pattern, topic_pattern)
        /\ (c.topic_access = "pubsub" \/ c.topic_access = access)

-----------------------------------------------------------------------------
(* Credential store and credentials creator *)

Stores(c, g, p) == [creds |-> c, gen |-> g, policy |-> p]

\* retrieve_credentials raises IdentityNotFound for an identity it does not hold.
IdentityNotFound(S, identity) == S.creds[identity] = 0

\* credentials_creator.create makes a fresh secret; store_credentials records it.
CreateAndStore(S, identity) ==
    [S EXCEPT !.gen[identity] = @ + 1, !.creds[identity] = S.gen[identity] + 1]

\* Variant: credentials are created and stored without looking for existing ones.
EnsureCredentialsAlwaysCreating(S, identity) == CreateAndStore(S, identity)

\* try: retrieve_credentials(identity) / except IdentityNotFound: store(create(identity))
EnsureCredentials(S, identity) ==
    IF IdentityNotFound(S, identity) THEN CreateAndStore(S, identity) ELSE S

-----------------------------------------------------------------------------
(* Bootstrap: the steps of VolttronAuthService.__init__ in program order *)

InitComment == "Automatically added by init of auth service"

ConfigStoreProtected ==
    {"set_config", "delete_config", "delete_store", "initialize_configs",
     "config_update", "initial_config"}

\* Variant: remove_role is left out of the protected set.
AuthProtectedWithoutRemoveRole ==
    {"create_agent", "remove_agent", "create_or_merge_role",
     "create_or_merge_agent_group", "create_or_merge_agent_authz",
     "create_protected_topics", "remove_agents_from_group", "add_agents_to_group",
     "remove_protected_topics", "remove_agent_authorization",
     "remove_agent_group"}

AuthProtected ==
    {"create_agent", "remove_agent", "create_or_merge_role",
     "create_or_merge_agent_group", "create_or_merge_agent_authz",
     "create_protected_topics", "remove_agents_from_group", "add_agents_to_group",
     "remove_protected_topics", "remove_agent_authorization",
     "remove_agent_group", "remove_role"}

DefaultRpcCapabilities ==
    {RPCCapability(Resource(CONFIGURATION_STORE, "initialize_configs")),
     RPCCapability(Resource(CONFIGURATION_STORE, "set_config")),
     RPCCapability(Resource(CONFIGURATION_STORE, "delete_store")),
     RPCCapability(Resource(CONFIGURATION_STORE, "delete_config"))}

SyncAgentConfigCapabilities ==
    {RPCCapability(Resource("config.store", "config_update")),
     RPCCapability(Resource("config.store", "initial_update"))}

\* Variant: the admin pattern without its regex delimiters.
AdminRpcCapabilitiesUndelimited == {RPCCapability(<<".*">>)}

AdminRpcCapabilities == {RPCCapability(<<"/", ".*", "/">>)}

AdminPubsubCapabilities == {PubsubCapability(<<"/", ".*", "/">>, "pubsub")}

CredSteps == [k \in 1..Len(volttron_services) |-> [kind |-> "cred", identity |-> volttron_services[k]]]

RoleSteps ==
    << [kind |-> "role", name |-> "default_rpc_capabilities", rpc |-> DefaultRpcCapabilities, pubsub |-> {}],
       [kind |-> "role", name |-> "sync_agent_config", rpc |-> SyncAgentConfigCapabilities, pubsub |-> {}],
       [kind |-> "role", name |-> "admin", rpc |-> AdminRpcCapabilities, pubsub |-> AdminPubsubCapabilities] >>

AuthzStep(k, protected_rpcs) ==
    [kind |-> "authz", identity |-> k, protected_rpcs |-> protected_rpcs, comments |-> InitComment]

\* One pass of the loop body: `if k == CONFIGURATION_STORE`, then `if k == AUTH ... else ...`.
AuthzStepsFor(k) ==
    (IF k = CONFIGURATION_STORE THEN <<AuthzStep(k, ConfigStoreProtected)>> ELSE <<>>)
    \o (IF k = AUTH THEN <<AuthzStep(k, AuthProtected)>> ELSE <<AuthzStep(k, {})>>)

RECURSIVE AuthzSteps(_)
AuthzSteps(services) ==
    IF services = <<>> THEN <<>>
    ELSE AuthzStepsFor(Head(services)) \o AuthzSteps(Tail(services))

GroupStep ==
    [kind |-> "group", name |-> "admin_users", identities |-> Range(volttron_services),
     roles |-> {AgentRole("admin", {})}]

StartStep == [kind |-> "start"]

BootstrapSteps(conf) ==
    CredSteps
    \o (IF conf THEN RoleSteps \o AuthzSteps(volttron_services) \o <<GroupStep>> ELSE <<>>)
    \o <<StartStep>>

\* The effect of one bootstrap step on the stores.
ApplyStep(S, step) ==
    CASE step.kind = "cred" -> EnsureCredentials(S, step.identity)
      [] step.kind = "role" ->
            [S EXCEPT !.policy = AM_create_or_merge_role(@, step.name, step.rpc, step.pubsub)]
      [] step.kind = "authz" ->
            [S EXCEPT !.policy = AM_create_or_merge_agent_authz(@, step.identity, step.protected_rpcs, {}, {}, {}, step.comments)]
      [] step.kind = "group" ->
            [S EXCEPT !.policy = AM_create_or_merge_agent_group(@, step.name, step.identities, step.roles, {}, {})]
      [] OTHER -> S

\* Whether the step raises by itself: the closing retrieve_credentials(AUTH).
StepRaises(S, step) == step.kind = "start" /\ IdentityNotFound(S, AUTH)

RECURSIVE RunSteps(_, _)
RunSteps(S, steps) ==
    IF steps = <<>> THEN S ELSE RunSteps(ApplyStep(S, Head(steps)), Tail(steps))

\* An uninterrupted __init__.
FullBootstrap(S, conf) == RunSteps(S, BootstrapSteps(conf))

-----------------------------------------------------------------------------
(* The service object: construction, bootstrap, restart *)

Here == Stores(creds, gen, policy)

NoRequest == [op |-> "none", id |-> "none", status |-> "none", result |-> FALSE, error |-> "none", push |-> "none", again |-> FALSE]

\* `again`: the request before this one was the same operation on the same name.
Response(op, id, status, result, error, push) ==
    [op |-> op, id |-> id, status |-> status, result |-> result, error |-> error, push |-> push,
     again |-> (last.op = op /\ last.id = id)]

\* Two greenlets serving create_agent at the same time.
Handlers == {"h1", "h2"}

\* A handler that has not been entered.
IdleCall == [pc |-> "idle", identity |-> "none", creds |-> 0]

Init ==
    /\ configured \in BOOLEAN
    /\ phase = "Uninitialized"
    /\ epoch = 1
    /\ pc = 1
    /\ creds = [i \in Identities |-> 0]
    /\ gen = [i \in Identities |-> 0]
    /\ policy = EmptyPolicy
    /\ peers = {}
    /\ agentProt = [i \in Users |-> {}]
    /\ pending = <<>>
    /\ served = 0
    /\ last = NoRequest
    /\ bootBase = Stores(creds, gen, policy)
    /\ bootBaseSettled = FALSE
    /\ calls = [h \in Handlers |-> IdleCall]

\* The service object is being constructed: __init__ is entered.
Construct ==
    /\ phase = "Uninitialized"
    /\ phase' = "Bootstrapping"
    /\ pc' = 1
    /\ UNCHANGED <<configured, epoch, creds, gen, policy, peers, agentProt, pending,
                   served, last, bootBase, bootBaseSettled, calls>>

\* The phase after bootstrap step `step` has completed.
PhaseAfter(step) == IF step.kind = "start" THEN "Running" ELSE "Bootstrapping"

\* The next statement of __init__ runs to completion.
BootstrapStep ==
    /\ phase = "Bootstrapping"
    /\ pc <= Len(BootstrapSteps(configured))
    /\ LET step == BootstrapSteps(configured)[pc]
           S == ApplyStep(Here, step)
       IN /\ ~StepRaises(Here, step)
          /\ \A i \in Identities : S.gen[i] <= MaxGen
          /\ creds' = S.creds
          /\ gen' = S.gen
          /\ policy' = S.policy
          /\ pc' = pc + 1
          /\ phase' = PhaseAfter(step)
          /\ last' = IF step.kind = "start"
                     THEN Response("bootstrap", AUTH, "returned", TRUE, "none", "none")
                     ELSE last
    /\ UNCHANGED <<configured, epoch, peers, agentProt, pending, served, bootBase,
                   bootBaseSettled, calls>>

\* The phase after a bootstrap step has raised: nothing in __init__ catches it.
PhaseAfterFailure == "Failed"

\* The next statement of __init__ raises (a collaborator fails, the process dies).
BootstrapFail ==
    /\ phase = "Bootstrapping"
    /\ pc <= Len(BootstrapSteps(configured))
    /\ phase' = PhaseAfterFailure
    /\ UNCHANGED <<configured, epoch, pc, creds, gen, policy, peers, agentProt, pending,
                   served, last, bootBase, bootBaseSettled, calls>>

\* The platform is started again: a new service object over the persisted stores.
Restart ==
    /\ phase \in {"Failed", "Running"}
    /\ epoch < MaxEpoch
    /\ epoch' = epoch + 1
    /\ phase' = "Uninitialized"
    /\ pc' = 1
    /\ peers' = {}
    /\ agentProt' = [i \in Users |-> {}]
    /\ pending' = <<>>
    /\ bootBase' = IF phase = "Running" THEN Here ELSE bootBase
    /\ bootBaseSettled' = IF phase = "Running" THEN last.op = "bootstrap" ELSE bootBaseSettled
    /\ calls' = [h \in Handlers |-> IdleCall]
    /\ UNCHANGED <<configured, creds, gen, policy, served, last>>

-----------------------------------------------------------------------------
(* The bus: peers connect and disconnect *)

\* An agent connects; on start it reads its protected_rpcs from the authority.
Connect(i) ==
    /\ phase = "Running"
    /\ i \notin peers
    /\ peers' = peers \cup {i}
    /\ agentProt' = [agentProt EXCEPT ![i] = policy.authz[i].protected_rpcs]
    /\ UNCHANGED <<configured, phase, epoch, pc, creds, gen, policy, pending, served,
                   last, bootBase, bootBaseSettled, calls>>

Disconnect(i) ==
    /\ phase = "Running"
    /\ i \in peers
    /\ peers' = peers \ {i}
    /\ agentProt' = [agentProt EXCEPT ![i] = {}]
    /\ UNCHANGED <<configured, phase, epoch, pc, creds, gen, policy, pending, served,
                   last, bootBase, bootBaseSettled, calls>>

-----------------------------------------------------------------------------
(* Requests: the exported operations, served once the agent core runs *)

\* Variant: the agent core is started before the bootstrap statements.
ServingDuringBootstrap == phase \in {"Bootstrapping", "Running"}

\* super().__init__ is the last call of __init__: no request reaches an object
\* whose bootstrap has not completed.
Serving == phase = "Running"

Accept == Serving /\ served < MaxOps /\ served' = served + 1

Frame == UNCHANGED <<configured, phase, epoch, pc, peers, bootBase, bootBaseSettled, calls>>

\* A call that only writes to the Authorization Manager: self._authz_manager.<op>(...)
\* `found` is false where the manager raises NotFound for an unknown name.
WriteThrough(op, id, found, P) ==
    /\ Accept
    /\ policy' = IF configured /\ found THEN P ELSE policy
    /\ last' = IF ~configured THEN Response(op, id, "raised", FALSE, "AttributeError", "none")
               ELSE IF ~found THEN Response(op, id, "raised", FALSE, "NotFound", "none")
               ELSE Response(op, id, "returned", AM_result, "none", "none")
    /\ UNCHANGED <<creds, gen, agentProt, pending>>
    /\ Frame

\* A call that only reads from the Authorization Manager.
ReadThrough(op, id, value) ==
    /\ Accept
    /\ last' = IF ~configured THEN Response(op, id, "raised", FALSE, "AttributeError", "none")
               ELSE Response(op, id, "returned", value, "none", "none")
    /\ UNCHANGED <<creds, gen, policy, agentProt, pending>>
    /\ Frame

DefaultAgentProtected ==
    {"config.update", "config.initial_update", "rpc.add_protected_rpcs",
     "rpc.remove_protected_rpcs"}

\* `if not self._authz_manager.get_agent_capabilities(identity=identity)`
IsNewUser(P, identity) == ~Truthy(AM_get_agent_capabilities(P, identity))

DefaultAuthz(P, identity) ==
    AM_create_or_merge_agent_authz(P, identity, DefaultAgentProtected, {AgentRole("default_rpc_capabilities", {<<"identity", identity>>})}, {}, {}, "default authorization for new user")

\* Variant: create_agent issues new credentials on every call.
CreateAgentStoresRegenerating(S, identity, conf) ==
    LET S1 == CreateAndStore(S, identity)
    IN IF conf /\ IsNewUser(S1.policy, identity)
       THEN [S1 EXCEPT !.policy = DefaultAuthz(@, identity)]
       ELSE S1

\* The stores after create_agent(identity); with no manager the call raises
\* after the credentials part.
CreateAgentStores(S, identity, conf) ==
    LET S1 == EnsureCredentials(S, identity)
    IN IF conf /\ IsNewUser(S1.policy, identity)
       THEN [S1 EXCEPT !.policy = DefaultAuthz(@, identity)]
       ELSE S1

\* Variant: the default authorization goes through the service's own
\* create_or_merge_agent_authz, which pushes to a connected identity.
create_agentThroughOwnHandler(identity) ==
    /\ Accept
    /\ LET S == CreateAgentStores(Here, identity, configured)
       IN /\ S.gen[identity] <= MaxGen
          /\ creds' = S.creds
          /\ gen' = S.gen
          /\ policy' = S.policy
    /\ pending' = IF configured /\ IsNewUser(policy, identity) /\ identity \in peers
                  THEN Append(pending, [identity |-> identity, protected_rpcs |-> DefaultAgentProtected, result |-> AM_result])
                  ELSE pending
    /\ last' = IF configured
               THEN Response("create_agent", identity, "returned", TRUE, "none", "none")
               ELSE Response("create_agent", identity, "raised", FALSE, "AttributeError", "none")
    /\ UNCHANGED agentProt
    /\ Frame

create_agent(identity) ==
    /\ Accept
    /\ LET S == CreateAgentStores(Here, identity, configured)
       IN /\ S.gen[identity] <= MaxGen
          /\ creds' = S.creds
          /\ gen' = S.gen
          /\ policy' = S.policy
    /\ last' = IF configured
               THEN Response("create_agent", identity, "returned", TRUE, "none", "none")
               ELSE Response("create_agent", identity, "raised", FALSE, "AttributeError", "none")
    /\ UNCHANGED <<agentProt, pending>>
    /\ Frame

get_agent_capabilities(identity) ==
    ReadThrough("get_agent_capabilities", identity, AM_get_agent_capabilities(policy, identity))

\* remove_credentials raises for an identity it does not hold, or when the
\* store itself fails (storeFails).
RemoveCredentialsRaises(S, identity, storeFails) ==
    IdentityNotFound(S, identity) \/ storeFails

\* Variant: the authorization record is removed before the credentials.
RemoveAgentOutcomeAuthzFirst(S, identity, storeFails, conf) ==
    IF ~conf
    THEN [stores |-> S, status |-> "raised", error |-> "AttributeError"]
    ELSE IF ~S.policy.authz[identity].present
    THEN [stores |-> S, status |-> "raised", error |-> "NotFound"]
    ELSE LET S1 == [S EXCEPT !.policy = AM_remove_agent_authorization(@, identity)]
         IN IF RemoveCredentialsRaises(S1, identity, storeFails)
            THEN [stores |-> S1, status |-> "raised", error |-> "CredentialStoreError"]
            ELSE [stores |-> [S1 EXCEPT !.creds[identity] = 0],
                  status |-> "returned", error |-> "none"]

\* The stores and the outcome of remove_agent(identity).
RemoveAgentOutcome(S, identity, storeFails, conf) ==
    IF RemoveCredentialsRaises(S, identity, storeFails)
    THEN [stores |-> S, status |-> "raised", error |-> "CredentialStoreError"]
    ELSE LET S1 == [S EXCEPT !.creds[identity] = 0]
         IN IF ~conf
            THEN [stores |-> S1, status |-> "raised", error |-> "AttributeError"]
            ELSE IF ~S1.policy.authz[identity].present
            THEN [stores |-> S1, status |-> "raised", error |-> "NotFound"]
            ELSE [stores |-> [S1 EXCEPT !.policy = AM_remove_agent_authorization(@, identity)],
                  status |-> "returned", error |-> "none"]

remove_agent(identity, storeFails) ==
    /\ Accept
    /\ LET out == RemoveAgentOutcome(Here, identity, storeFails, configured)
       IN /\ creds' = out.stores.creds
          /\ policy' = out.stores.policy
          /\ last' = Response("remove_agent", identity, out.status, out.status = "returned", out.error, "none")
    /\ UNCHANGED <<gen, agentProt, pending>>
    /\ Frame

get_protected_rpcs(identity) ==
    ReadThrough("get_protected_rpcs", identity, AM_get_protected_rpcs(policy, identity))

check_rpc_authorization(identity, method_name, method_args) ==
    ReadThrough("check_rpc_authorization", identity, AM_check_rpc_authorization(policy, identity, method_name, method_args))

check_pubsub_authorization(identity, topic_pattern, access) ==
    ReadThrough("check_pubsub_authorization", identity, AM_check_pubsub_authorization(policy, identity, topic_pattern, access))

create_or_merge_role(name, rpc_capabilities, pubsub_capabilities) ==
    WriteThrough("create_or_merge_role", name, TRUE, AM_create_or_merge_role(policy, name, rpc_capabilities, pubsub_capabilities))

create_or_merge_agent_group(name, identities, roles) ==
    WriteThrough("create_or_merge_agent_group", name, TRUE, AM_create_or_merge_agent_group(policy, name, identities, roles, {}, {}))

remove_agents_from_group(name, identities) ==
    WriteThrough("remove_agents_from_group", name, policy.groups[name].present, AM_remove_agents_from_group(policy, name, identities))

add_agents_to_group(name, identities) ==
    WriteThrough("add_agents_to_group", name, policy.groups[name].present, AM_add_agents_to_group(policy, name, identities))

create_protected_topics(topic_name_patterns) ==
    WriteThrough("create_protected_topics", "none", TRUE, AM_create_protected_topics(policy, topic_name_patterns))

remove_protected_topics(topic_name_patterns) ==
    WriteThrough("remove_protected_topics", "none", TRUE, AM_remove_protected_topics(policy, topic_name_patterns))

remove_agent_authorization(identity) ==
    WriteThrough("remove_agent_authorization", identity, policy.authz[identity].present, AM_remove_agent_authorization(policy, identity))

remove_agent_group(name) ==
    WriteThrough("remove_agent_group", name, policy.groups[name].present, AM_remove_agent_group(policy, name))

remove_role(name) ==
    WriteThrough("remove_role", name, policy.roles[name].present, AM_remove_role(policy, name))

-----------------------------------------------------------------------------
(* create_or_merge_agent_authz and its propagation push *)

\* Variant: the peer list is not consulted.
CallsPeerIgnoringPeerList(result, protected_rpcs, identity, peers_list) ==
    result /\ protected_rpcs # {}

\* `if result and protected_rpcs:` / `if identity in self.vip.peerlist.peers_list:`
CallsPeer(result, protected_rpcs, identity, peers_list) ==
    result /\ protected_rpcs # {} /\ identity \in peers_list

\* The merge, then either the return or the remote call, whose answer the
\* handler waits for in .get(timeout=5) while other requests are served.
create_or_merge_agent_authz(identity, a) ==
    /\ Accept
    /\ IF ~configured
       THEN /\ last' = Response("create_or_merge_agent_authz", identity, "raised", FALSE, "AttributeError", "none")
            /\ UNCHANGED <<policy, pending>>
       ELSE /\ policy' = AM_create_or_merge_agent_authz(policy, identity, a.protected_rpcs, a.roles, a.rpc, a.pubsub, a.comments)
            /\ IF CallsPeer(AM_result, a.protected_rpcs, identity, peers)
               THEN /\ Len(pending) < MaxPending
                    /\ pending' = Append(pending, [identity |-> identity, protected_rpcs |-> a.protected_rpcs, result |-> AM_result])
                    /\ last' = Response("create_or_merge_agent_authz", identity, "calling", AM_result, "none", "sent")
               ELSE /\ pending' = pending
                    /\ last' = Response("create_or_merge_agent_authz", identity, "returned", AM_result, "none", "not_sent")
    /\ UNCHANGED <<creds, gen, agentProt>>
    /\ Frame

\* Variant: the reply is awaited without a timeout.
PushOutcomesUnboundedWait == {"ok", "Unreachable", "RemoteError"}

PushOutcomes == {"ok", "Unreachable", "RemoteError", "Timeout"}

\* Variant: no `except Unreachable` clause.
CompletionUnreachableRaises(outcome, result) ==
    CASE outcome = "ok" -> [status |-> "returned", result |-> result, error |-> "none"]
      [] outcome = "Unreachable" -> [status |-> "raised", result |-> FALSE, error |-> "Unreachable"]
      [] outcome = "RemoteError" -> [status |-> "raised", result |-> FALSE, error |-> "TypeError"]
      [] OTHER -> [status |-> "raised", result |-> FALSE, error |-> "Timeout"]

\* Variant: RemoteError is logged like Unreachable.
CompletionRemoteErrorLogged(outcome, result) ==
    CASE outcome = "ok" -> [status |-> "returned", result |-> result, error |-> "none"]
      [] outcome = "Unreachable" -> [status |-> "returned", result |-> result, error |-> "none"]
      [] outcome = "RemoteError" -> [status |-> "returned", result |-> result, error |-> "none"]
      [] OTHER -> [status |-> "raised", result |-> FALSE, error |-> "Timeout"]

\* How the handler ends for each outcome of the remote call: Unreachable is
\* logged; RemoteError reaches `raise (message, e)`, which raises TypeError
\* (a tuple is no exception); a gevent Timeout is not caught.
Completion(outcome, result) ==
    CASE outcome = "ok" -> [status |-> "returned", result |-> result, error |-> "none"]
      [] outcome = "Unreachable" -> [status |-> "returned", result |-> result, error |-> "none"]
      [] outcome = "RemoteError" -> [status |-> "raised", result |-> FALSE, error |-> "TypeError"]
      [] OTHER -> [status |-> "raised", result |-> FALSE, error |-> "Timeout"]

\* What the remote call primitive can answer: Unreachable when the peer is not
\* connected, a result or a RemoteError when it is, a timeout in either case.
CanAnswer(outcome, identity) ==
    CASE outcome = "Unreachable" -> identity \notin peers
      [] outcome \in {"ok", "RemoteError"} -> identity \in peers
      [] OTHER -> TRUE

RemoveAt(s, k) == SubSeq(s, 1, k - 1) \o SubSeq(s, k + 1, Len(s))

\* The remote call of pending request k ends; the handler resumes and completes.
\* Variant: a push that failed is issued again after the request has failed.
PushReplyRetrying(k, outcome) ==
    /\ Serving
    /\ k \in 1..Len(pending)
    /\ outcome \in PushOutcomes
    /\ CanAnswer(outcome, pending[k].identity)
    /\ LET req == pending[k]
           c == Completion(outcome, req.result)
       IN /\ agentProt' = IF outcome = "ok"
                          THEN [agentProt EXCEPT ![req.identity] = @ \cup req.protected_rpcs]
                          ELSE agentProt
          /\ last' = Response("create_or_merge_agent_authz", req.identity, c.status, c.result, c.error, outcome)
          /\ pending' = IF c.status = "raised" THEN pending ELSE RemoveAt(pending, k)
    /\ UNCHANGED <<creds, gen, policy, served>>
    /\ Frame

\* Variant: a successful push replaces the agent's set by the stored set.
PushReplySynchronising(k, outcome) ==
    /\ Serving
    /\ k \in 1..Len(pending)
    /\ outcome \in PushOutcomes
    /\ CanAnswer(outcome, pending[k].identity)
    /\ LET req == pending[k]
           c == Completion(outcome, req.result)
       IN /\ agentProt' = IF outcome = "ok"
                          THEN [agentProt EXCEPT ![req.identity] = AM_get_protected_rpcs(policy, req.identity)]
                          ELSE agentProt
          /\ last' = Response("create_or_merge_agent_authz", req.identity, c.status, c.result, c.error, outcome)
    /\ pending' = RemoveAt(pending, k)
    /\ UNCHANGED <<creds, gen, policy, served>>
    /\ Frame

PushReply(k, outcome) ==
    /\ Serving
    /\ k \in 1..Len(pending)
    /\ outcome \in PushOutcomes
    /\ CanAnswer(outcome, pending[k].identity)
    /\ LET req == pending[k]
           c == Completion(outcome, req.result)
       IN /\ agentProt' = IF outcome = "ok"
                          THEN [agentProt EXCEPT ![req.identity] = @ \cup req.protected_rpcs]
                          ELSE agentProt
          /\ last' = Response("create_or_merge_agent_authz", req.identity, c.status, c.result, c.error, outcome)
    /\ pending' = RemoveAt(pending, k)
    /\ UNCHANGED <<creds, gen, policy, served>>
    /\ Frame

-----------------------------------------------------------------------------
(* Inputs *)

OpIdentities == {"agent1", AUTH}

AuthzArgs ==
    { [protected_rpcs |-> {}, roles |-> {AgentRole("admin", {})}, rpc |-> {}, pubsub |-> {}, comments |-> "None"],
      [protected_rpcs |-> {"m1"}, roles |-> {}, rpc |-> {}, pubsub |-> {}, comments |-> "c1"],
      [protected_rpcs |-> {"create_agent"}, roles |-> {}, rpc |-> {RPCCapability(Resource(AUTH, "create_agent"))}, pubsub |-> {}, comments |-> "None"] }

RoleArgs ==
    { [name |-> "admin", rpc |-> {}, pubsub |-> {}],
      [name |-> "sync_agent_config", rpc |-> {RPCCapability(Resource("agent1", "m1"))}, pubsub |-> {PubsubCapability(<<"t1">>, "publish")}] }

RemovableRoles == {"admin", "default_rpc_capabilities"}

RpcChecks ==
    { [method_name |-> <<AUTH, "create_agent">>, method_args |-> {}],
      [method_name |-> <<AUTH, "get_protected_rpcs">>, method_args |-> {}],
      [method_name |-> <<CONFIGURATION_STORE, "set_config">>, method_args |-> {<<"identity", "agent1">>}] }

TopicPatterns == {{<<"t1">>}}

Next ==
    \/ Construct
    \/ BootstrapStep
    \/ BootstrapFail
    \/ Restart
    \/ \E i \in Users : Connect(i)
    \/ \E i \in Users : Disconnect(i)
    \/ \E i \in OpIdentities : create_agent(i)
    \/ \E i \in OpIdentities : get_agent_capabilities(i)
    \/ \E i \in OpIdentities, f \in BOOLEAN : remove_agent(i, f)
    \/ \E i \in OpIdentities : get_protected_rpcs(i)
    \/ \E i \in OpIdentities, c \in RpcChecks : check_rpc_authorization(i, c.method_name, c.method_args)
    \/ \E i \in OpIdentities : check_pubsub_authorization(i, <<"t1">>, "publish")
    \/ \E r \in RoleArgs : create_or_merge_role(r.name, r.rpc, r.pubsub)
    \/ \E g \in GroupNames : create_or_merge_agent_group(g, {"agent1"}, {})
    \/ \E g \in GroupNames, i \in OpIdentities : remove_agents_from_group(g, {i})
    \/ \E g \in GroupNames : add_agents_to_group(g, {"agent1"})
    \/ \E i \in OpIdentities, a \in AuthzArgs : create_or_merge_agent_authz(i, a)
    \/ \E k \in 1..MaxPending, o \in PushOutcomes : PushReply(k, o)
    \/ \E t \in TopicPatterns : create_protected_topics(t)
    \/ \E t \in TopicPatterns : remove_protected_topics(t)
    \/ \E i \in OpIdentities : remove_agent_authorization(i)
    \/ \E g \in GroupNames : remove_agent_group(g)
    \/ \E n \in RemovableRoles : remove_role(n)

Spec == Init /\ [][Next]_vars

\* The wait on a push is bounded (.get(timeout=5)): a call in flight that
\* nothing answers ends with the timeout. Whether the peer answers is left
\* open.
WaitExpires == \E k \in 1..MaxPending : PushReply(k, "Timeout")

SpecLive == Spec /\ WF_vars(WaitExpires)

------------------------------------------------------------------------------
(* create_agent served by handlers whose collaborator calls interleave.     *)
(* The handler takes no lock: each call on the credential store, the        *)
(* credentials creator and the Authorization Manager is a step of its own.  *)

HandlerFrame == UNCHANGED <<configured, phase, epoch, pc, peers, agentProt, pending, bootBase, bootBaseSettled>>

\* A create_agent request is accepted by an idle handler.
create_agent_begin(h, identity) ==
    /\ Accept
    /\ calls[h].pc = "idle"
    /\ calls' = [calls EXCEPT ![h] = [pc |-> "retrieve", identity |-> identity, creds |-> 0]]
    /\ last' = Response("create_agent", identity, "calling", FALSE, "none", "none")
    /\ UNCHANGED <<creds, gen, policy>>
    /\ HandlerFrame

\* self._credentials_store.retrieve_credentials(identity=identity)
create_agent_retrieve(h) ==
    /\ Serving
    /\ calls[h].pc = "retrieve"
    /\ calls' = [calls EXCEPT ![h].pc = IF IdentityNotFound(Here, calls[h].identity) THEN "create" ELSE "check",
                              ![h].creds = creds[calls[h].identity]]
    /\ UNCHANGED <<creds, gen, policy, served, last>>
    /\ HandlerFrame

\* creds = self._credentials_creator.create(identity)
create_agent_create(h) ==
    /\ Serving
    /\ calls[h].pc = "create"
    /\ gen[calls[h].identity] < MaxGen
    /\ gen' = [gen EXCEPT ![calls[h].identity] = @ + 1]
    /\ calls' = [calls EXCEPT ![h].pc = "store", ![h].creds = gen[calls[h].identity] + 1]
    /\ UNCHANGED <<creds, policy, served, last>>
    /\ HandlerFrame

\* self._credentials_store.store_credentials(credentials=creds)
create_agent_store(h) ==
    /\ Serving
    /\ calls[h].pc = "store"
    /\ creds' = [creds EXCEPT ![calls[h].identity] = calls[h].creds]
    /\ calls' = [calls EXCEPT ![h].pc = "check"]
    /\ UNCHANGED <<gen, policy, served, last>>
    /\ HandlerFrame

\* if not self._authz_manager.get_agent_capabilities(identity=identity):
create_agent_check(h) ==
    /\ Serving
    /\ calls[h].pc = "check"
    /\ calls' = [calls EXCEPT ![h].pc = IF configured /\ IsNewUser(policy, calls[h].identity) THEN "merge" ELSE "done"]
    /\ last' = CASE ~configured -> Response("create_agent", calls[h].identity, "raised", FALSE, "AttributeError", "none")
                  [] IsNewUser(policy, calls[h].identity) -> last
                  [] OTHER -> Response("create_agent", calls[h].identity, "returned", TRUE, "none", "none")
    /\ UNCHANGED <<creds, gen, policy, served>>
    /\ HandlerFrame

\* self._authz_manager.create_or_merge_agent_authz(...); return True
create_agent_merge(h) ==
    /\ Serving
    /\ calls[h].pc = "merge"
    /\ policy' = DefaultAuthz(policy, calls[h].identity)
    /\ calls' = [calls EXCEPT ![h].pc = "done"]
    /\ last' = Response("create_agent", calls[h].identity, "returned", TRUE, "none", "none")
    /\ UNCHANGED <<creds, gen, served>>
    /\ HandlerFrame

NextConcurrent ==
    \/ Construct
    \/ BootstrapStep
    \/ \E h \in Handlers, i \in OpIdentities : create_agent_begin(h, i)
    \/ \E h \in Handlers : create_agent_retrieve(h)
    \/ \E h \in Handlers : create_agent_create(h)
    \/ \E h \in Handlers : create_agent_store(h)
    \/ \E h \in Handlers : create_agent_check(h)
    \/ \E h \in Handlers : create_agent_merge(h)

SpecConcurrent == Init /\ [][NextConcurrent]_vars

-----------------------------------------------------------------------------
(* Properties *)

\* This step accepts and runs a request of operation `op`.
OpStep(op) == served' = served + 1 /\ last'.op = op

\* This step resumes a handler that was waiting for its remote call.
ReplyStep == phase' = "Running" /\ Len(pending') < Len(pending)

\* This step issues a remote call to a peer.
CallStep == Len(pending') > Len(pending)

\* C1: remove_agent removes the credentials first and the authorization
\* record second: whenever the credential removal fails (the credentials are
\* absent or the store raises, so the store is left as it was) the policy
\* store is unchanged, and the only change remove_agent ever makes to the
\* policy store is removing that identity's record in a step that also
\* removed its credentials.
C1_RemoveAgentOrder ==
    [][OpStep("remove_agent") =>
        LET i == last'.id
            removed == creds[i] # 0 /\ creds'[i] = 0
        IN /\ ~removed => policy' = policy
           /\ policy' # policy =>
                removed /\ policy' = AM_remove_agent_authorization(policy, i)]_vars

\* A remove_agent whose credential removal failed while both the credentials
\* and the authorization record of the identity exist.
C1_Witness ==
    /\ last.op = "remove_agent"
    /\ last.error = "CredentialStoreError"
    /\ creds[last.id] # 0
    /\ policy.authz[last.id].present

\* C2: a create_or_merge_agent_authz for an identity that is not in the peer
\* list applies the merge and returns the manager's result without a remote
\* call; one whose push ends with Unreachable returns the manager's result
\* too and leaves the policy store as merged.
C2_UnreachableIsSuccess ==
    [][/\ (OpStep("create_or_merge_agent_authz") /\ configured /\ last'.id \notin peers) =>
            /\ last'.status = "returned"
            /\ last'.result = AM_result
            /\ pending' = pending
            /\ \E a \in AuthzArgs :
                 policy' = AM_create_or_merge_agent_authz(policy, last'.id, a.protected_rpcs, a.roles, a.rpc, a.pubsub, a.comments)
       /\ (ReplyStep /\ last'.push = "Unreachable") =>
            /\ last'.status = "returned"
            /\ last'.result = AM_result
            /\ policy' = policy]_vars

\* The push for a changed protected_rpcs set ended with Unreachable and the
\* call returned, the new method still protected.
C2_Witness ==
    /\ last.op = "create_or_merge_agent_authz"
    /\ last.push = "Unreachable"
    /\ last.status = "returned"
    /\ "m1" \in policy.authz[last.id].protected_rpcs

\* C3: when the push to a connected identity fails with RemoteError the call
\* ends in a failure (an exception reaches the caller, no result is returned)
\* and the policy store keeps the merge.
C3_RemoteErrorIsFailure ==
    [][(ReplyStep /\ last'.push = "RemoteError") =>
        /\ last'.status = "raised"
        /\ last'.id \in peers
        /\ policy' = policy]_vars

\* A call failed on RemoteError and the method it protected is still protected.
C3_Witness ==
    /\ last.op = "create_or_merge_agent_authz"
    /\ last.push = "RemoteError"
    /\ last.status = "raised"
    /\ "m1" \in policy.authz[last.id].protected_rpcs

\* C4 as claimed: a remote call is issued only by a call that changed the
\* identity's protected_rpcs set, for an identity in the peer list.
C4_PushOnlyOnChange ==
    [][(OpStep("create_or_merge_agent_authz") /\ CallStep) =>
        /\ last'.id \in peers
        /\ policy'.authz[last'.id].protected_rpcs # policy.authz[last'.id].protected_rpcs]_vars

\* C4 amended: a remote call is issued only by a call that the manager
\* answered with success, whose protected_rpcs argument is non-empty, for an
\* identity in the peer list; the call carries that argument, all of it
\* protected in the store by then, whether or not any of it is new.
C4_PushOnlyWithArgument ==
    [][CallStep =>
        /\ OpStep("create_or_merge_agent_authz")
        /\ Len(pending') = Len(pending) + 1
        /\ LET req == pending'[Len(pending')]
           IN /\ req.identity = last'.id
              /\ req.identity \in peers
              /\ req.result
              /\ req.protected_rpcs # {}
              /\ \E a \in AuthzArgs : a.protected_rpcs = req.protected_rpcs
              /\ req.protected_rpcs \subseteq policy'.authz[req.identity].protected_rpcs]_vars

\* A handler is waiting for the answer to its push.
C4_Witness ==
    /\ pending # <<>>
    /\ last.op = "create_or_merge_agent_authz"
    /\ last.status = "calling"
    /\ last.again

\* C5: create_agent is idempotent: a create_agent(identity) that directly
\* follows a create_agent(identity) leaves the credential store and the
\* policy store exactly as the first call left them.
C5_CreateAgentIdempotent ==
    [][(OpStep("create_agent") /\ last.op = "create_agent" /\ last'.id = last.id) =>
        /\ creds' = creds
        /\ policy' = policy]_vars

\* create_agent ran twice in a row for a user the first call provisioned.
C5_Witness ==
    /\ last.op = "create_agent"
    /\ last.again
    /\ last.status = "returned"
    /\ last.id \in Users
    /\ creds[last.id] # 0
    /\ AgentRole("default_rpc_capabilities", {<<"identity", last.id>>}) \in policy.authz[last.id].roles

\* This step is a statement of bootstrap or a create_agent call.
ProvisioningStep == phase = "Bootstrapping" \/ OpStep("create_agent")

\* C6: credentials are create-if-absent only: no bootstrap step and no
\* create_agent call changes the stored credentials of an identity that has
\* some, and in every step new credentials are created for an identity only
\* when the store held none for it (the retrieve failed), and are then stored.
C6_CredentialsCreateIfAbsent ==
    [][\A i \in Identities :
        /\ (ProvisioningStep /\ creds[i] # 0) => (creds'[i] = creds[i] /\ gen'[i] = gen[i])
        /\ gen'[i] # gen[i] =>
            /\ ProvisioningStep
            /\ creds[i] = 0
            /\ gen'[i] = gen[i] + 1
            /\ creds'[i] = gen'[i]]_vars

\* A second bootstrap has completed over the credentials the first one made.
C6_Witness ==
    /\ epoch = 2
    /\ phase = "Running"
    /\ bootBase.creds[AUTH] = 1
    /\ \A k \in Range(volttron_services) : creds[k] = 1 /\ gen[k] = 1

\* The part of the stores the claims compare.
Persisted(S) == [creds |-> S.creds, policy |-> S.policy]

\* C7: bootstrap is restart-safe: when a bootstrap completes, after any
\* number of attempts that failed part-way and were re-run from the start,
\* the stores equal those of one uninterrupted bootstrap over the stores the
\* first attempt began with; and a complete bootstrap over stores that a
\* complete bootstrap left changes nothing.
C7_BootstrapRestartSafe ==
    (phase = "Running" /\ last.op = "bootstrap") =>
        /\ Persisted(Here) = Persisted(FullBootstrap(bootBase, configured))
        /\ bootBaseSettled => Persisted(Here) = Persisted(bootBase)

\* A bootstrap with an Authorization Manager completed in the second
\* construction over stores that were empty when the first one, which
\* failed, began.
C7_Witness ==
    /\ phase = "Running"
    /\ last.op = "bootstrap"
    /\ configured
    /\ epoch = 2
    /\ bootBase.policy = EmptyPolicy
    /\ bootBase.creds[AUTH] = 0

\* The policy-mutating operations the orchestrator exports.
PolicyMutatingOps ==
    {"create_agent", "remove_agent", "create_or_merge_role", "remove_role",
     "create_or_merge_agent_group", "remove_agent_group", "add_agents_to_group",
     "remove_agents_from_group", "create_or_merge_agent_authz",
     "remove_agent_authorization", "create_protected_topics", "remove_protected_topics"}

MergeOps ==
    {"create_agent", "create_or_merge_role", "create_or_merge_agent_group",
     "create_or_merge_agent_authz"}

\* C8: when a bootstrap with an Authorization Manager completes,
\* get_protected_rpcs(AUTH) is non-empty and holds every policy-mutating
\* operation, and no create_agent or create_or_merge_* call removes a method
\* from it.
C8_AuthProtectsItsMutators ==
    [][/\ (phase = "Bootstrapping" /\ phase' = "Running" /\ configured) =>
            /\ AM_get_protected_rpcs(policy', AUTH) # {}
            /\ PolicyMutatingOps \subseteq AM_get_protected_rpcs(policy', AUTH)
       /\ (served' = served + 1 /\ last'.op \in MergeOps) =>
            AM_get_protected_rpcs(policy, AUTH) \subseteq AM_get_protected_rpcs(policy', AUTH)]_vars

\* A create_or_merge_agent_authz on AUTH itself ran after bootstrap and the
\* operations are still protected.
C8_Witness ==
    /\ phase = "Running"
    /\ configured
    /\ last.op = "create_or_merge_agent_authz"
    /\ last.id = AUTH
    /\ PolicyMutatingOps \subseteq AM_get_protected_rpcs(policy, AUTH)

\* The admin role as bootstrap seeds it is assigned to the identity directly.
GrantedAdmin(i) ==
    /\ AgentRole("admin", {}) \in policy.authz[i].roles
    /\ RPCCapability(<<"/", ".*", "/">>) \in policy.roles["admin"].rpc

SampleArgs == {{}, {<<"identity", "agent1">>}}

\* C9: in a running service with an Authorization Manager, while AUTH's
\* policy-mutating methods are protected: an identity with no capabilities is
\* denied each of them; an identity granted the admin role (holding the
\* pattern /.*/) is permitted all of them; and when bootstrap has just
\* completed every reserved identity is permitted all of them through the
\* admin_users group.
C9_AdminGateOnAuthMethods ==
    (phase = "Running" /\ configured) =>
        /\ \A i \in Identities, m \in PolicyMutatingOps, args \in SampleArgs :
            (/\ m \in AM_get_protected_rpcs(policy, AUTH)
             /\ ~Truthy(AM_get_agent_capabilities(policy, i)))
                => ~AM_check_rpc_authorization(policy, i, <<AUTH, m>>, args)
        /\ \A i \in Identities, m \in PolicyMutatingOps, args \in SampleArgs :
            GrantedAdmin(i) => AM_check_rpc_authorization(policy, i, <<AUTH, m>>, args)
        /\ last.op = "bootstrap" =>
            \A i \in Range(volttron_services), m \in PolicyMutatingOps, args \in SampleArgs :
                /\ i \in policy.groups["admin_users"].identities
                /\ m \in AM_get_protected_rpcs(policy, AUTH)
                /\ AM_check_rpc_authorization(policy, i, <<AUTH, m>>, args)

\* A user without any other capability was granted the admin role and is
\* now permitted a protected method of AUTH.
C9_Witness ==
    /\ phase = "Running"
    /\ configured
    /\ GrantedAdmin("agent1")
    /\ "agent1" \notin policy.groups["admin_users"].identities
    /\ policy.authz["agent1"].rpc = {}
    /\ "remove_role" \in AM_get_protected_rpcs(policy, AUTH)
    /\ AM_check_rpc_authorization(policy, "agent1", <<AUTH, "remove_role">>, {})

\* C10: within one construction of the service the phase moves only
\* Uninitialized -> Bootstrapping -> Running and never leaves Running; the
\* bootstrap statements run one at a time in program order and Running is
\* entered only by the last of them; a failed statement ends the construction
\* for good; and requests are accepted, and handlers resumed, only in Running
\* after every bootstrap statement has run.
C10_Lifecycle ==
    [][/\ epoch' = epoch =>
            /\ phase = "Uninitialized" => phase' \in {"Uninitialized", "Bootstrapping"}
            /\ phase = "Bootstrapping" => phase' \in {"Bootstrapping", "Running", "Failed"}
            /\ phase = "Running" => phase' = "Running"
            /\ phase = "Failed" => phase' = "Failed"
            /\ pc' \in {pc, pc + 1} \/ (phase = "Uninitialized" /\ pc' = 1)
       /\ (phase = "Bootstrapping" /\ phase' = "Running") =>
            /\ pc = Len(BootstrapSteps(configured))
            /\ pc' = pc + 1
       /\ (phase = "Bootstrapping" /\ phase' = "Bootstrapping" /\ pc' = pc) => UNCHANGED vars
       /\ (served' # served \/ Len(pending') > Len(pending) \/ ReplyStep) =>
            /\ phase = "Running"
            /\ phase' = "Running"
            /\ pc = Len(BootstrapSteps(configured)) + 1]_vars

\* A construction failed after some bootstrap statements had run.
C10_Witness ==
    /\ phase = "Failed"
    /\ epoch = 2
    /\ pc = 8
    /\ served > 0

\* The operations served as requests.
ExportedOps ==
    {"create_agent", "get_agent_capabilities", "remove_agent", "get_protected_rpcs",
     "check_rpc_authorization", "check_pubsub_authorization", "create_or_merge_role",
     "create_or_merge_agent_group", "remove_agents_from_group", "add_agents_to_group",
     "create_or_merge_agent_authz", "create_protected_topics", "remove_protected_topics",
     "remove_agent_authorization", "remove_agent_group", "remove_role"}

\* C11: only create_or_merge_agent_authz has a propagation step: a request
\* of any other exported operation issues no remote call and changes nothing
\* at a peer; it changes at most the credential store and the policy store.
C11_OnlyAgentAuthzPropagates ==
    [][(served' = served + 1 /\ last'.op # "create_or_merge_agent_authz") =>
        /\ last'.op \in ExportedOps
        /\ pending' = pending
        /\ agentProt' = agentProt
        /\ peers' = peers
        /\ last'.push = "none"]_vars

\* create_agent seeded protected_rpcs for a connected identity: nothing was
\* sent to it and it enforces none of them.
C11_Witness ==
    /\ last.op = "create_agent"
    /\ last.status = "returned"
    /\ last.id \in peers
    /\ DefaultAgentProtected \subseteq policy.authz[last.id].protected_rpcs
    /\ agentProt[last.id] = {}
    /\ pending = <<>>

\* C12: without an Authorization Manager no policy-store call is ever made,
\* bootstrap leaves only the reserved identities with credentials, and a
\* create_agent request ensures the identity's credentials and returns.
C12_AuthorizationOptional ==
    ~configured =>
        /\ policy = EmptyPolicy
        /\ (phase = "Running" /\ served = 0 =>
                \A i \in Identities : creds[i] # 0 <=> i \in Range(volttron_services))
        /\ \A i \in Identities :
                last.op = "create_agent" /\ last.id = i =>
                    creds[i] # 0 /\ last.status = "returned"

\* C13: a create_or_merge_agent_authz request issues at most one push, in
\* the step whose policy already holds the request's merge; a push is never
\* issued outside the step that accepts a request; and the step that
\* completes a pushed request takes exactly that call out of flight, issues
\* none and leaves the policy alone, also when the push failed.
C13_OnePushAfterMerge ==
    [][/\ CallStep =>
            /\ served' = served + 1
            /\ last'.status = "calling"
            /\ pending' = Append(pending, pending'[Len(pending')])
            /\ \E a \in AuthzArgs :
                /\ pending'[Len(pending')].protected_rpcs = a.protected_rpcs
                /\ policy' = AM_create_or_merge_agent_authz(policy, last'.id, a.protected_rpcs, a.roles, a.rpc, a.pubsub, a.comments)
       /\ served' = served => Len(pending') <= Len(pending)
       /\ (served' = served /\ last' # last /\ last'.op = "create_or_merge_agent_authz") =>
            /\ last'.status \in {"returned", "raised"}
            /\ last'.push \in PushOutcomes
            /\ policy' = policy
            /\ \E k \in 1..Len(pending) :
                /\ pending[k].identity = last'.id
                /\ pending' = RemoveAt(pending, k)]_vars

\* A request whose push failed has completed and nothing is in flight.
C13_Witness ==
    /\ last.op = "create_or_merge_agent_authz"
    /\ last.status = "raised"
    /\ last.push \in {"RemoteError", "Timeout"}
    /\ pending = <<>>
    /\ policy.authz[last.id].present

\* A push has just completed successfully.
PushSucceeded == ReplyStep /\ last' # last /\ last'.push = "ok"

\* C14 as stated: whenever a push completes successfully, the agent's
\* enforced protected_rpcs set equals the stored set of that identity.
C14_PushMakesAgentEqualStore ==
    [][PushSucceeded =>
        \A i \in Users :
            last'.id = i => agentProt'[i] = AM_get_protected_rpcs(policy', i)]_vars

\* C14 amended: a successful push adds the methods passed to the triggering
\* call to the agent's enforced set and changes nothing else at any agent;
\* stored methods the agent was missing stay missing.
C14_PushAddsCallMethods ==
    [][PushSucceeded =>
        \E k \in 1..Len(pending) :
            /\ pending[k].identity = last'.id
            /\ pending' = RemoveAt(pending, k)
            /\ \E a \in AuthzArgs : a.protected_rpcs = pending[k].protected_rpcs
            /\ agentProt' = [agentProt EXCEPT ![pending[k].identity] = @ \cup pending[k].protected_rpcs]]_vars

\* A push has succeeded and the agent enforces the pushed methods but not
\* all of the stored ones.
C14_Witness ==
    /\ last.op = "create_or_merge_agent_authz"
    /\ last.push = "ok"
    /\ last.id \in Users
    /\ \A i \in Users :
        last.id = i =>
            /\ agentProt[i] # {}
            /\ agentProt[i] \subseteq AM_get_protected_rpcs(policy, i)
            /\ agentProt[i] # AM_get_protected_rpcs(policy, i)

\* Some policy operation other than the waiting one can be served now.
OtherPolicyOperationsEnabled ==
    /\ ENABLED (\E r \in RoleArgs : create_or_merge_role(r.name, r.rpc, r.pubsub))
    /\ ENABLED (\E i \in OpIdentities : get_protected_rpcs(i))
    /\ ENABLED (\E i \in OpIdentities : remove_agent_authorization(i))
    /\ ENABLED (\E i \in OpIdentities : create_agent(i))

\* C15: every create_or_merge_agent_authz request whose push is in flight
\* eventually completes, even if the peer never answers; the expiry of the
\* wait fails the request and changes nothing in the policy store, so the
\* merge is not rolled back; and while
\* the request waits, other policy operations can be served.
C15_RequestCompletes ==
    /\ \A i \in OpIdentities :
        (\E k \in 1..Len(pending) : pending[k].identity = i)
            ~> (pending = <<>> /\ (phase = "Running" =>
                    last.status \in {"returned", "raised"}))
    /\ [][(ReplyStep /\ last' # last /\ last'.push = "Timeout") =>
            /\ policy' = policy
            /\ last'.status = "raised"
            /\ last'.error = "Timeout"]_vars
    /\ []((pending # <<>> /\ served < MaxOps /\ gen["agent1"] < MaxGen) => OtherPolicyOperationsEnabled)

\* The push to a connected peer ended with the timeout: the request has
\* failed, nothing is in flight and the merged methods are stored.
C15_Witness ==
    /\ last.op = "create_or_merge_agent_authz"
    /\ last.push = "Timeout"
    /\ last.status = "raised"
    /\ last.id \in peers
    /\ pending = <<>>
    /\ "m1" \in policy.authz[last.id].protected_rpcs

\* The stores a complete bootstrap leaves from empty ones.
Booted ==
    FullBootstrap(Stores([i \in Identities |-> 0], [i \in Identities |-> 0], EmptyPolicy), configured)

\* Both handlers have run create_agent for identity i to its end.
BothDone(i) == \A h \in Handlers : calls[h].pc = "done" /\ calls[h].identity = i

\* C16: when two interleaved create_agent calls for the same new identity
\* have both ended, credentials for it were created at most once, and the
\* credential and policy stores are those left by running the two calls one
\* after the other.
C16_ConcurrentCreateAgentSerializable ==
    \A i \in Users :
        BothDone(i) =>
            /\ gen[i] <= 1
            /\ Persisted(Here) = Persisted(CreateAgentStores(CreateAgentStores(Booted, i, configured), i, configured))

=============================================================================
